---------------------------- MODULE Spec2Model ----------------------------
(***************************************************************************)
(* Model of the SL server: the signal codec (signal.js), the worker's      *)
(* connection session (worker.js) and the helpers it calls (utils.js).     *)
(* Buffers are sequences of bytes (0..255), strings are sequences of       *)
(* character codes, hexadecimal strings are sequences of digits (0..15).   *)
(***************************************************************************)
EXTENDS Integers, Sequences, FiniteSets, TLC

VARIABLES
    wire,        \* codec harness: bytes written by the peer, not yet delivered
    zone,        \* codec harness: the receiver's cache (zone.cache)
    received,    \* codec harness: frames exports.decode has returned so far
    accepted,    \* codec harness: the declared length of every framed buffer decode accepted (history)
    sentFrames,  \* codec harness: what the peer sent, in order (history)
    sentBytes,   \* codec harness: every byte written so far (history)
    rejectAt,    \* codec harness: Len(sentFrames) at the first size rejection, 0 if none
    bulk,        \* codec harness: summary of the last socket.write(encode(..)) of a large buffer
    sock,        \* worker: the properties the session keeps on the socket object
    promises,    \* worker: state of every promise created, by creation order
    ops,         \* worker: asynchronous operations in flight (fs, npm)
    waiters,     \* worker: pending Promise.all(socket.sync).then(..) continuations
    out,         \* worker: frames written to the socket, in order
    fs,          \* file system: path -> inode of the files that exist
    inodes,      \* file system: content of every inode created
    requireCache,\* worker: manifest paths held by require's module cache
    crashed,     \* worker: an uncaught exception has ended the process
    net,         \* the socket: "open", or which of 'close' and 'error' it has emitted
    inflight,    \* transport: bytes of a frame whose first part has been delivered
    sent,        \* client: number of messages sent (history)
    handled,     \* worker: frames dispatched to handle, in order (history)
    decoded,     \* worker: the cache exports.decode left at the last 'data' event (history)
    checkOffs,   \* worker: every check-complete emission and what was pending then (history)
    decLog,      \* worker: every barrier decrement (history)
    unhandled,   \* worker: rejections of Promise.all nobody handles (history)
    buildLog,    \* worker: every build started, its output and its ignore set (history)
    devLog,      \* worker: every call of a dev build's close and the socket's state then (history)
    listening,   \* master: the callback of server.listen has run
    workers      \* master: every worker forked, in order, and whether its process runs

codecVars == <<wire, zone, received, accepted, sentFrames, sentBytes, rejectAt, bulk>>

sessVars == <<sock, promises, ops, waiters, out, fs, inodes, requireCache, crashed, net,
              inflight, sent, handled, decoded, checkOffs, decLog, unhandled, buildLog,
              devLog>>

masterVars == <<listening, workers>>

vars == <<codecVars, sessVars, masterVars>>

-----------------------------------------------------------------------------
(* Bounds of the model *)

\* frames the peer sends on one connection of the codec harness
MaxFrames == 2
\* largest small note and small content handed to encode by the streaming caller
MaxBulkNote == 9
MaxBulkContent == 11
\* messages a client sends on one connection
MaxMsgs == 4
\* number of CPU cores, and of worker exits
Cores == 3
MaxExits == 4

-----------------------------------------------------------------------------
(* Generic helpers: JavaScript Buffer / String primitives *)

Min(S) == CHOOSE x \in S : \A y \in S : x <= y

Last(s) == s[Len(s)]

\* Buffer.prototype.slice(start, end): negative offsets count from the end,
\* offsets are clamped to the buffer
Slice(buf, start, end) ==
    LET n == Len(buf)
        norm(x) == IF x < 0 THEN (IF n + x < 0 THEN 0 ELSE n + x)
                            ELSE (IF x > n THEN n ELSE x)
        s == norm(start)
        e == norm(end)
    IN  IF s >= e THEN << >> ELSE SubSeq(buf, s + 1, e)

\* buf[i], 0-based; -1 stands for undefined (i is outside the buffer)
At(buf, i) == IF i >= 0 /\ i < Len(buf) THEN buf[i + 1] ELSE 0 - 1

\* Buffer.prototype.slice(start)
SliceFrom(buf, start) == Slice(buf, start, Len(buf))

\* Buffer.prototype.indexOf(pattern): 0-based offset of the first occurrence, -1 if none
IndexOf(buf, pat) ==
    LET n == Len(buf)
        m == Len(pat)
        hits == {i \in 0..(n - m) : SubSeq(buf, i + 1, i + m) = pat}
    IN  IF hits = {} THEN 0 - 1 ELSE Min(hits)

\* Number.prototype.toString(16): the hexadecimal digits of n, no padding
RECURSIVE toString16(_)
toString16(n) == IF n < 16 THEN <<n>> ELSE toString16(n \div 16) \o <<n % 16>>

\* parseInt(digits, 16) of a non-empty string of hexadecimal digits
RECURSIVE parseInt16(_)
parseInt16(s) ==
    IF Len(s) = 1 THEN s[1]
    ELSE parseInt16(SubSeq(s, 1, Len(s) - 1)) * 16 + s[Len(s)]

-----------------------------------------------------------------------------
(* signal.js: protocol constants *)

START == <<18, 35, 51>>
END == <<171, 205, 239>>
BOUNDARY == <<16, 3>>
JOINT == END \o START
MAX == 5
MAX_INFO_SIZE == MAX * 1024 * 1024

CLIENT_INIT == 0
CLIENT_FILE_CHANGE == 1
CLIENT_FILE_DELETE == 2
CLIENT_FILE_CHECK == 3
CLIENT_FILE_SYNC == 4
CLIENT_NUMBER_OF_CHECK_FILES == 5
CLIENT_DEVELOPMENT == 6
CLIENT_BUILD == 7
CLIENT_SYNC_FILES_MD5 == 8

SERVER_INIT_DONE == <<255>>
SERVER_FILE_UPDATE == <<254>>
SERVER_CHECK_OFF == <<253>>
SERVER_DEV_SERVER_START == <<252>>
SERVER_BUILD_FILE_SYNC == <<251>>
SERVER_CONSOLE == <<187>>
SERVER_FIN == <<128>>

-----------------------------------------------------------------------------
(* signal.js: encode *)

\* zeroFillBuffers(content, length): left-pad a string with '0'
RECURSIVE zeroFillBuffers(_, _)
zeroFillBuffers(content, length) ==
    IF Len(content) < length THEN zeroFillBuffers(<<0>> \o content, length)
    ELSE content

\* the length computed by encode for a note and a content of the given sizes
encodeLength(noteLen, contentLen) ==
    Len(START) + 3 + 1 + noteLen + Len(BOUNDARY) + contentLen + Len(END)

\* the three length bytes encode derives from the padded hexadecimal string
lengthBuf(length) ==
    LET length_x16 == zeroFillBuffers(toString16(length), 6)
    IN  << parseInt16(Slice(length_x16, 0, 2)),
           parseInt16(Slice(length_x16, 2, 4)),
           parseInt16(SliceFrom(length_x16, 4)) >>

\* what encode returns when the size is over the limit: the object {} (no Buffer)
EmptyObject == [object |-> "{}"]

IsBuffer(x) == x # EmptyObject

\* mutant of the size test of encode: the limit itself is refused
encodeTooBig_Mutant(length) == MAX_INFO_SIZE <= length

\* the size test of encode
encodeTooBig(length) == MAX_INFO_SIZE < length

\* exports.encode(signal, content, note), for Buffer arguments
encode(signal, content, note) ==
    LET length == encodeLength(Len(note), Len(content))
    IN  IF encodeTooBig(length) THEN EmptyObject
        ELSE START \o lengthBuf(length) \o signal \o note \o BOUNDARY \o content \o END

-----------------------------------------------------------------------------
(* signal.js: decode *)

\* cut(data, result) of split: the pieces of data, cut after every END that
\* is immediately followed by START
RECURSIVE cut(_)
cut(data) ==
    LET index == IndexOf(data, JOINT)
    IN  IF index = 0 - 1 THEN <<data>>
        ELSE <<Slice(data, 0, index + Len(END))>> \o cut(SliceFrom(data, index + Len(END)))

split(data) == cut(data)

\* the length decode reads: the hexadecimal texts of the three length bytes,
\* concatenated without padding, parsed as one hexadecimal number
decodeLength(cache) ==
    LET b == Slice(cache, 3, 6)
    IN  parseInt16(toString16(b[1]) \o toString16(b[2]) \o toString16(b[3]))

\* the size test of decode
decodeTooBig(length) == MAX_INFO_SIZE < length

\* which buffer decode leaves in zone.cache when it rejects a frame for its size
cacheAfterReject(cache) == cache

\* decode(data, zone): appends data to the zone's cache and returns the new
\* cache, the frame it emits (if any), and whether it rejected the cache for
\* its declared length
decode(data, zoneCache) ==
    LET cache == zoneCache \o data
    IN  IF \/ START # Slice(cache, 0, 3)
           \/ END # SliceFrom(cache, Len(cache) - 3)
        THEN [cache |-> cache, out |-> << >>, raw |-> << >>, rejected |-> FALSE]
        ELSE IF decodeTooBig(decodeLength(cache))
        THEN [cache |-> cacheAfterReject(cache), out |-> << >>, raw |-> << >>,
              rejected |-> TRUE]
        ELSE LET type == At(cache, 6)
                 body == Slice(cache, 7, Len(cache) - 3)
                 index == IndexOf(body, BOUNDARY)
                 note == Slice(body, 0, index)
                 content == SliceFrom(body, index + Len(BOUNDARY))
             IN  [cache |-> << >>,
                  out |-> <<[type |-> type, content |-> content, note |-> note]>>,
                  raw |-> <<cache>>, rejected |-> FALSE]

\* split(data).map(chunk => decode(chunk, zone)), piece by piece
RECURSIVE decodePieces(_, _)
decodePieces(pieces, zoneCache) ==
    IF pieces = << >>
    THEN [cache |-> zoneCache, out |-> << >>, raw |-> << >>, rejected |-> FALSE]
    ELSE LET first == decode(Head(pieces), zoneCache)
             rest == decodePieces(Tail(pieces), first.cache)
         IN  [cache |-> rest.cache, out |-> first.out \o rest.out,
              raw |-> first.raw \o rest.raw,
              rejected |-> first.rejected \/ rest.rejected]

\* exports.decode(data, zone): the complete frames of this call, in order
exports_decode(data, zoneCache) == decodePieces(split(data), zoneCache)

-----------------------------------------------------------------------------
(* Codec harness: one connection on which a peer writes frames, the        *)
(* transport delivers the bytes in chunks of any size, and the receiver    *)
(* calls exports.decode(chunk, zone) on every chunk.                       *)

\* inputs of the harness
Types == {CLIENT_FILE_CHANGE, CLIENT_BUILD}
Notes == { << >>, <<97>>, BOUNDARY }
Contents == { << >>, <<104>>, END, JOINT }
\* length fields a peer may declare in a frame it builds by hand
OverLengths == {MAX_INFO_SIZE + 1, MAX_INFO_SIZE + 65536, 16777215}
\* sizes of the buffers handed to encode by a caller that streams files:
\* small ones, and large ones whose totals lie around the limit
BulkSizes ==
    ((0..MaxBulkNote) \X (0..MaxBulkContent))
    \cup ({0, 1} \X {MAX_INFO_SIZE - 13, MAX_INFO_SIZE - 12, MAX_INFO_SIZE - 11})

NoBulk == [noteLen |-> 0, contentLen |-> 0, length |-> 0, wrote |-> 0,
           failure |-> "none", head |-> << >>]

\* a buffer of n zero bytes (Buffer.alloc(n))
Zeros(n) == [i \in 1..n |-> 0]

\* a length as the protocol's 3-byte big-endian field
be3(n) == << n \div 65536, (n \div 256) % 256, n % 256 >>

\* the 3-byte big-endian length field of a framed buffer
declaredLength(raw) == raw[4] * 65536 + raw[5] * 256 + raw[6]

Triple(f) == [type |-> f.type, content |-> f.content, note |-> f.note]

CodecInit ==
    /\ wire = << >>
    /\ zone = [cache |-> << >>]
    /\ received = << >>
    /\ accepted = << >>
    /\ sentFrames = << >>
    /\ sentBytes = << >>
    /\ rejectAt = 0
    /\ bulk = NoBulk

\* socket.write(signal.encode(signal, content, note)) by the peer
Send(type, content, note) ==
    /\ Len(sentFrames) < MaxFrames
    /\ bulk = NoBulk
    /\ LET data == encode(<<type>>, content, note)
       IN  /\ IsBuffer(data)
           /\ wire' = wire \o data
           /\ sentBytes' = sentBytes \o data
    /\ sentFrames' = Append(sentFrames,
           [type |-> type, content |-> content, note |-> note, valid |-> TRUE,
            declared |-> encodeLength(Len(note), Len(content))])
    /\ UNCHANGED <<zone, received, accepted, rejectAt, bulk, sessVars, masterVars>>

\* a peer that frames by hand and declares a length over the limit
SendRaw(declared) ==
    /\ Len(sentFrames) < MaxFrames
    /\ bulk = NoBulk
    /\ LET data == START \o be3(declared) \o <<CLIENT_FILE_CHANGE>> \o BOUNDARY \o END
       IN  /\ wire' = wire \o data
           /\ sentBytes' = sentBytes \o data
    /\ sentFrames' = Append(sentFrames,
           [type |-> CLIENT_FILE_CHANGE, content |-> << >>, note |-> << >>,
            valid |-> FALSE, declared |-> declared])
    /\ UNCHANGED <<zone, received, accepted, rejectAt, bulk, sessVars, masterVars>>

\* socket.on('data', data => signal.decode(data, zone)) on the next k bytes
Deliver(k) ==
    /\ k \in 1..Len(wire)
    /\ LET r == exports_decode(SubSeq(wire, 1, k), zone.cache)
       IN  /\ zone' = [cache |-> r.cache]
           /\ received' = received \o r.out
           /\ accepted' = accepted \o [i \in 1..Len(r.raw) |-> declaredLength(r.raw[i])]
           /\ rejectAt' = IF r.rejected /\ rejectAt = 0 THEN Len(sentFrames) ELSE rejectAt
    /\ wire' = SubSeq(wire, k + 1, Len(wire))
    /\ UNCHANGED <<sentFrames, sentBytes, bulk, sessVars, masterVars>>

\* socket.write(x): only a Buffer is written; anything else is refused
\* (a TypeError is thrown or an 'error' event is emitted, by Node version)
socketWrite(x) ==
    IF IsBuffer(x) THEN [wrote |-> Len(x), failures |-> {"none"}, head |-> Slice(x, 0, 7)]
    ELSE [wrote |-> 0, failures |-> {"throw", "error"}, head |-> << >>]

\* socket.write(signal.encode(SERVER_BUILD_FILE_SYNC, data, note)) with a
\* large file: only the size, the outcome and the frame's header are kept
WriteBulk(noteLen, contentLen) ==
    /\ sentFrames = << >>
    /\ bulk = NoBulk
    /\ LET w == socketWrite(encode(SERVER_BUILD_FILE_SYNC, Zeros(contentLen), Zeros(noteLen)))
       IN  \E f \in w.failures :
               bulk' = [noteLen |-> noteLen, contentLen |-> contentLen,
                        length |-> encodeLength(noteLen, contentLen), wrote |-> w.wrote,
                        failure |-> f, head |-> w.head]
    /\ UNCHANGED <<wire, zone, received, accepted, sentFrames, sentBytes, rejectAt,
                   sessVars, masterVars>>

-----------------------------------------------------------------------------
(* worker.js / utils.js: values and conversions *)

\* the JavaScript value undefined, where a string, a buffer or a list is expected
Undefined == <<0 - 1>>

Range(s) == {s[i] : i \in 1..Len(s)}

\* Buffer.prototype.toString(): UTF-8 decoding; EF BF BD decodes to U+FFFD,
\* and so does any other byte that is not ASCII (the buffers of the model hold
\* no other multi-byte sequence, whole or truncated)
toStr(buf) ==
    LET n == Len(buf)
        whole == {i \in 1..(n - 2) : SubSeq(buf, i, i + 2) = <<239, 191, 189>>}
        kept == {i \in 1..n : i - 1 \notin whole /\ i - 2 \notin whole}
        at(k) == CHOOSE i \in kept : Cardinality({j \in kept : j <= i}) = k
    IN  [k \in 1..Cardinality(kept) |->
            IF at(k) \in whole \/ buf[at(k)] >= 128 THEN 65533 ELSE buf[at(k)]]

\* Buffer.from(string): UTF-8 encoding
RECURSIVE bufferFrom(_)
bufferFrom(str) ==
    IF str = << >> THEN << >>
    ELSE (IF Head(str) < 128 THEN <<Head(str)>> ELSE <<239, 191, 189>>)
         \o bufferFrom(Tail(str))

\* +string for a string of decimal digits, with or without a minus sign ('' is
\* 0); a string that is no number is NaN, which no decrement ever brings to
\* zero: it is modelled by -1
RECURSIVE toNumber(_)
toNumber(str) ==
    IF str = << >> THEN 0
    ELSE IF Len(str) >= 2 /\ str[1] = 45 /\ \A i \in 2..Len(str) : str[i] \in 48..57
    THEN 0 - toNumber(Tail(str))
    ELSE IF \E i \in 1..Len(str) : str[i] < 48 \/ str[i] > 57 THEN 0 - 1
    ELSE toNumber(SubSeq(str, 1, Len(str) - 1)) * 10 + (str[Len(str)] - 48)

\* texts used on the wire
PackageJson == <<112, 97, 99, 107, 97, 103, 101, 46, 106, 115, 111, 110>>
ATxt == <<97, 46, 116, 120, 116>>
Hi == <<104, 105>>
Yo == <<121, 111>>
\* {"dependencies":{}}
Manifest == <<123, 34, 100, 101, 112, 101, 110, 100, 101, 110, 99, 105, 101, 115, 34,
              58, 123, 125, 125>>
\* {"uid":"u","project":"p","builder":"b"}
IdentU == <<123, 34, 117, 105, 100, 34, 58, 34, 117, 34, 44, 34, 112, 114, 111, 106,
            101, 99, 116, 34, 58, 34, 112, 34, 44, 34, 98, 117, 105, 108, 100, 101,
            114, 34, 58, 34, 98, 34, 125>>
\* {"uid":"v","project":"p","builder":"b"}
IdentV == <<123, 34, 117, 105, 100, 34, 58, 34, 118, 34, 44, 34, 112, 114, 111, 106,
            101, 99, 116, 34, 58, 34, 112, 34, 44, 34, 98, 117, 105, 108, 100, 101,
            114, 34, 58, 34, 98, 34, 125>>

\* contents and names of the files a build leaves in dist
DataX == <<120>>
DataY == <<121>>
XJs == <<120, 46, 106, 115>>
YJs == <<121, 46, 106, 115>>
BigJs == <<98, 105, 103, 46, 106, 115>>
\* {"<md5('x').toString()>":true} as JSON.stringify writes it, and {}
HashSetX == <<123, 34, 239, 191, 189, 239, 191, 189, 239, 191, 189, 97, 38, 239, 191,
              189, 239, 191, 189, 52, 239, 191, 189, 239, 191, 189, 86, 78, 92, 117,
              48, 48, 49, 53, 92, 92, 103, 239, 191, 189, 34, 58, 116, 114, 117, 101,
              125>>
HashSetNone == <<123, 125>>

\* crypto md5 of the file contents of the model (the real digests)
md5(data) ==
    CASE data = Hi -> <<73, 246, 138, 92, 132, 147, 236, 44, 11, 244, 137, 130, 28, 33, 252, 59>>
      [] data = Yo -> <<109, 0, 7, 229, 47, 122, 251, 125, 90, 6, 80, 176, 255, 184, 164, 209>>
      [] data = << >> -> <<212, 29, 140, 217, 143, 0, 178, 4, 233, 128, 9, 152, 236, 248, 66, 126>>
      [] data = Manifest -> <<115, 192, 185, 194, 100, 54, 187, 217, 84, 18, 0, 172, 80, 56, 189, 105>>
      [] data = DataX -> <<157, 212, 228, 97, 38, 140, 128, 52, 245, 200, 86, 78, 21, 92, 103, 166>>
      [] data = DataY -> <<65, 82, 144, 118, 149, 148, 70, 14, 46, 72, 89, 34, 144, 79, 52, 93>>
      [] OTHER -> <<0, 0, 0, 0, 0, 0, 0, 0, 0, 0, 0, 0, 0, 0, 0, 0>>

\* JSON.parse of the texts of the model: ok is FALSE when JSON.parse throws;
\* keys are the property names of an object used as a hash set
JSONparse(text) ==
    CASE text = IdentU -> [ok |-> TRUE, uid |-> <<117>>, project |-> <<112>>,
                           builder |-> <<98>>, keys |-> {}]
      [] text = IdentV -> [ok |-> TRUE, uid |-> <<118>>, project |-> <<112>>,
                           builder |-> <<98>>, keys |-> {}]
      [] text = Manifest -> [ok |-> TRUE, uid |-> Undefined, project |-> Undefined,
                             builder |-> Undefined, keys |-> {}]
      [] text = toStr(HashSetX) ->
             [ok |-> TRUE, uid |-> Undefined, project |-> Undefined,
              builder |-> Undefined, keys |-> {toStr(md5(DataX))}]
      [] text = toStr(HashSetNone) ->
             [ok |-> TRUE, uid |-> Undefined, project |-> Undefined,
              builder |-> Undefined, keys |-> {}]
      [] OTHER -> [ok |-> FALSE, uid |-> Undefined, project |-> Undefined,
                   builder |-> Undefined, keys |-> {}]

\* require(packageJsonPath) followed by Object.keys(dependencies): succeeds
\* when the file parses to an object with a dependencies property
manifestLoads(content) == content = Manifest

-----------------------------------------------------------------------------
(* worker.js: the session state, as one record the handlers transform *)

NoBarrier == [id |-> 0, count |-> 0, total |-> 0]

NoSock == [inited |-> FALSE, uid |-> Undefined, project |-> Undefined,
           builder |-> Undefined, cache |-> << >>, sync |-> Undefined,
           checked |-> NoBarrier, distIgnore |-> {Undefined}, closed |-> << >>]

St == [sock |-> sock, promises |-> promises, ops |-> ops, waiters |-> waiters,
       out |-> out, fs |-> fs, inodes |-> inodes, requireCache |-> requireCache,
       crashed |-> crashed, net |-> net, handled |-> handled, checkOffs |-> checkOffs,
       decLog |-> decLog, unhandled |-> unhandled, buildLog |-> buildLog,
       devLog |-> devLog]

Assign(S) ==
    /\ sock' = S.sock
    /\ promises' = S.promises
    /\ ops' = S.ops
    /\ waiters' = S.waiters
    /\ out' = S.out
    /\ fs' = S.fs
    /\ inodes' = S.inodes
    /\ requireCache' = S.requireCache
    /\ crashed' = S.crashed
    /\ net' = S.net
    /\ handled' = S.handled
    /\ checkOffs' = S.checkOffs
    /\ decLog' = S.decLog
    /\ unhandled' = S.unhandled
    /\ buildLog' = S.buildLog
    /\ devLog' = S.devLog

\* an exception nobody catches: the worker process ends
throw(S) == [S EXCEPT !.crashed = TRUE]

\* socket.write(signal.encode(signal, content, note)): the frame written;
\* a closed socket writes nothing; by is the number of the message whose
\* handling writes (history)
write(S, by, signal, content, note) ==
    IF S.net # "open" THEN S
    ELSE [S EXCEPT !.out = Append(@, [signal |-> signal, content |-> content,
                                      note |-> note, text |-> "", by |-> by])]

\* utils.clientConsole: socket.write(signal.encode(SERVER_CONSOLE, Buffer.from(info)))
clientConsole(S, by, info) ==
    IF S.net # "open" THEN S
    ELSE [S EXCEPT !.out = Append(@, [signal |-> SERVER_CONSOLE, content |-> << >>,
                                      note |-> << >>, text |-> info, by |-> by])]

\* utils.relativeToAbsolute: path.posix.resolve(projectsDir, uid, project, relative),
\* kept as its segments; path.posix.resolve throws on an undefined segment
pathResolves(s) == s.uid # Undefined /\ s.project # Undefined

relativeToAbsolute(s, relative) == [uid |-> s.uid, project |-> s.project, rel |-> relative]

\* resolve() of a promise: only a pending promise changes state
resolve(S, p) ==
    IF S.promises[p] = "pending" THEN [S EXCEPT !.promises[p] = "resolved"] ELSE S

\* the entries of socket.sync that will never resolve: a promise that was
\* rejected, or one that is pending with no callback left that resolves it
failedTasks(S) ==
    IF S.sock.sync = Undefined THEN {}
    ELSE {p \in Range(S.sock.sync) :
            \/ S.promises[p] = "rejected"
            \/ S.promises[p] = "pending" /\ ~\E o \in S.ops : o.promise = p}

\* mutant of allSync: the entries that have failed are left out
allSync_Mutant(S) ==
    IF S.sock.sync = Undefined THEN {} ELSE Range(S.sock.sync) \ failedTasks(S)

\* Promise.all(socket.sync): the promises in the list when it is called
allSync(S) ==
    IF S.sock.sync = Undefined THEN {} ELSE Range(S.sock.sync)

\* mutant of reachesZero: a counter at or below zero fires as well
reachesZero_Mutant(t) == t <= 0

\* (total -= 1) === 0 in the closure of fileCheckCallBack
reachesZero(t) == t = 0

\* socket.checked(): the closure installed by fileCheckCallBack; the entry of
\* decLog tells which message decrements, whether its file write is still in
\* flight, the install promise its write has just enqueued, if any, and the
\* promise that the calling callback resolves right after the call, if any
checked(S, kind, by, install, own) ==
    IF S.sock.checked.id = 0 THEN throw(S)
    ELSE LET b == S.sock.checked
             t == b.total - 1
             S1 == [S EXCEPT !.sock.checked.total = t,
                             !.decLog = Append(@,
                                 [barrier |-> b.id, kind |-> kind, by |-> by,
                                  total |-> t, failed |-> failedTasks(S) \ {own},
                                  writing |-> \E o \in S.ops : o.id = by /\ o.kind = "cover",
                                  install |-> install,
                                  installState |-> IF install = 0 THEN "none"
                                                   ELSE S.promises[install],
                                  enqueued |-> /\ install # 0
                                               /\ S.sock.sync # Undefined
                                               /\ install \in Range(S.sock.sync)])]
         IN  IF reachesZero(t)
             THEN [S1 EXCEPT !.waiters = Append(@,
                       [then |-> "checkOff", barrier |-> b.id, count |-> b.count,
                        snapshot |-> allSync(S)])]
             ELSE S1

\* init(socket, info)
init(S, info) ==
    LET p == Len(S.promises) + 1
        S1 == [S EXCEPT !.promises = Append(@, "pending"),
                        !.sock = [inited |-> TRUE, uid |-> info.uid,
                                  project |-> info.project, builder |-> info.builder,
                                  cache |-> << >>, sync |-> << >>,
                                  checked |-> NoBarrier,
                                  distIgnore |-> S.sock.distIgnore,
                                  closed |-> Append(S.sock.closed, p)]]
    IN  clientConsole(write(S1, Len(S.handled), SERVER_INIT_DONE, << >>, << >>),
                      Len(S.handled), "> Connection is initialized.")

\* fileCover(socket, filepath, content, cb): the synchronous part, up to the
\* call of dirCheck; cb is "none", "resolve" or "checked" (fileSync's callbacks)
fileCover(S, filepath, content, cb, promise) ==
    IF ~pathResolves(S.sock) THEN throw(S)
    ELSE [S EXCEPT !.ops = @ \cup
            {[id |-> Len(S.handled), kind |-> "cover", stage |-> "mkdir",
              path |-> relativeToAbsolute(S.sock, filepath), rel |-> filepath,
              content |-> content, isPackageJson |-> (filepath = PackageJson),
              cb |-> cb, promise |-> promise, fd |-> 0, size |-> 0]}]

\* fileDelete(socket, filepath): fs.unlink without a callback
fileDelete(S, filepath) ==
    IF ~pathResolves(S.sock) THEN throw(S)
    ELSE [S EXCEPT !.ops = @ \cup
            {[id |-> Len(S.handled), kind |-> "unlink", stage |-> "unlink",
              path |-> relativeToAbsolute(S.sock, filepath), rel |-> filepath,
              content |-> << >>, isPackageJson |-> FALSE,
              cb |-> "none", promise |-> 0, fd |-> 0, size |-> 0]}]

\* fileCheck(socket, filepath, info): the synchronous part, up to fs.readFile
fileCheck(S, filepath, info) ==
    IF ~pathResolves(S.sock) THEN throw(S)
    ELSE [S EXCEPT !.ops = @ \cup
            {[id |-> Len(S.handled), kind |-> "check", stage |-> "read",
              path |-> relativeToAbsolute(S.sock, filepath), rel |-> filepath,
              content |-> info, isPackageJson |-> FALSE,
              cb |-> "none", promise |-> 0, fd |-> 0, size |-> 0]}]

\* fileSync(socket, filepath, content)
fileSync(S, filepath, content) ==
    IF S.sock.sync = Undefined THEN throw(S)
    ELSE LET p == Len(S.promises) + 1
             isPackageJson == filepath = PackageJson
             S1 == [S EXCEPT !.promises = Append(@, "pending")]
             S2 == fileCover(S1, filepath, content,
                             IF isPackageJson THEN "checked" ELSE "resolve", p)
             \* an exception in the promise's executor rejects the promise
             S3 == IF S2.crashed THEN [S1 EXCEPT !.promises[p] = "rejected"] ELSE S2
             S4 == [S3 EXCEPT !.sock.sync = Append(@, p)]
         IN  IF isPackageJson THEN S4 ELSE checked(S4, "sync", Len(S.handled), 0, 0)

\* mutant of fileCheckCallBack: the countdown starts one too high
fileCheckCallBack_Mutant(S, total) ==
    [S EXCEPT !.sock.checked = [id |-> Len(S.handled), count |-> total, total |-> total + 1]]

\* fileCheckCallBack(socket, total): installs the countdown closure
fileCheckCallBack(S, total) ==
    [S EXCEPT !.sock.checked = [id |-> Len(S.handled), count |-> total, total |-> total]]

\* development(socket): require(socket.builder).dev(root, socket.console),
\* and socket.closed.then(builder.close)
development(S) ==
    IF S.sock.builder = Undefined \/ ~pathResolves(S.sock) THEN throw(S)
    ELSE [S EXCEPT !.waiters = Append(@, [then |-> "devClose", barrier |-> Len(S.handled),
                                          count |-> 0,
                                          snapshot |-> {Last(S.sock.closed)}]),
                   !.ops = @ \cup
            {[id |-> Len(S.handled), kind |-> "dev", stage |-> "starting",
              path |-> relativeToAbsolute(S.sock, << >>), rel |-> << >>,
              content |-> << >>, isPackageJson |-> FALSE,
              cb |-> "none", promise |-> Last(S.sock.closed), fd |-> 0, size |-> 0]}]

\* build(socket): require(socket.builder).build(root, socket.console)
build(S) ==
    IF ~pathResolves(S.sock) \/ S.sock.builder = Undefined THEN throw(S)
    ELSE [S EXCEPT !.buildLog = Append(@, [id |-> Len(S.handled), state |-> "building",
                                           files |-> {}, ignore |-> S.sock.distIgnore,
                                           readErr |-> FALSE]),
                   !.ops = @ \cup
            {[id |-> Len(S.handled), kind |-> "build", stage |-> "building",
              path |-> relativeToAbsolute(S.sock, << >>), rel |-> << >>,
              content |-> << >>, isPackageJson |-> FALSE,
              cb |-> "none", promise |-> 0, fd |-> 0, size |-> 0]}]

\* handle(socket, { type, content, note })
handle(S, f) ==
    LET S0 == [S EXCEPT !.handled = Append(@, f)]
    IN  CASE f.type = CLIENT_INIT ->
               LET info == JSONparse(toStr(f.content))
               IN  IF info.ok THEN init(S0, info) ELSE throw(S0)
          [] f.type = CLIENT_FILE_CHANGE -> fileCover(S0, toStr(f.note), f.content, "none", 0)
          [] f.type = CLIENT_FILE_DELETE -> fileDelete(S0, toStr(f.note))
          [] f.type = CLIENT_FILE_CHECK -> fileCheck(S0, toStr(f.note), f.content)
          [] f.type = CLIENT_FILE_SYNC -> fileSync(S0, toStr(f.note), f.content)
          [] f.type = CLIENT_NUMBER_OF_CHECK_FILES ->
               fileCheckCallBack(S0, toNumber(toStr(f.content)))
          [] f.type = CLIENT_SYNC_FILES_MD5 ->
               LET set == JSONparse(toStr(f.content))
               IN  IF set.ok THEN [S0 EXCEPT !.sock.distIgnore = set.keys] ELSE throw(S0)
          [] f.type = CLIENT_DEVELOPMENT -> development(S0)
          [] f.type = CLIENT_BUILD -> build(S0)
          [] OTHER -> S0

\* signal.decode(data, socket).forEach(info => handle(socket, info)): an
\* exception in a handler ends the loop (and the process)
RECURSIVE handleAll(_, _)
handleAll(S, frames) ==
    IF frames = << >> \/ S.crashed THEN S
    ELSE handleAll(handle(S, Head(frames)), Tail(frames))

\* the then-callback of Promise.all(socket.sync) in fileCheckCallBack
checkOff(S, w) ==
    LET S1 == [S EXCEPT !.checkOffs = Append(@,
                   [barrier |-> w.barrier, count |-> w.count,
                    decs |-> Cardinality({i \in 1..Len(S.decLog) :
                                            S.decLog[i].barrier = w.barrier}),
                    unsettled |-> IF S.sock.sync = Undefined THEN {}
                                  ELSE {p \in Range(S.sock.sync) :
                                          S.promises[p] = "pending"},
                    pending |-> {p \in 1..Len(S.promises) : S.promises[p] = "pending"}])]
    IN  clientConsole(write(S1, w.barrier, SERVER_CHECK_OFF, << >>, << >>),
                      w.barrier, "> Completed project sync.")

\* the then-callbacks of the Promise.all over the files of a build:
\* socket.console('> Done.') and socket.write(signal.encode(SERVER_FIN))
buildFin(S, w) ==
    write(clientConsole(S, w.barrier, "> Done."), w.barrier, SERVER_FIN, << >>, << >>)

\* builder.close, the then-callback of socket.closed in development
devClose(S, w) ==
    [S EXCEPT !.devLog = Append(@, [id |-> w.barrier, net |-> S.net]),
              !.ops = {o \in @ : ~(o.kind = "dev" /\ o.id = w.barrier)}]

\* the promise jobs run after a callback returns: every Promise.all whose
\* promises are all resolved runs its then-callback; one with a rejected
\* promise rejects, and nobody handles that rejection
RECURSIVE drain(_)
drain(S) ==
    LET settled == {i \in 1..Len(S.waiters) :
                      \/ \A p \in S.waiters[i].snapshot : S.promises[p] = "resolved"
                      \/ \E p \in S.waiters[i].snapshot : S.promises[p] = "rejected"}
    IN  IF settled = {} THEN S
        ELSE LET i == Min(settled)
                 w == S.waiters[i]
                 rest == SubSeq(S.waiters, 1, i - 1) \o SubSeq(S.waiters, i + 1, Len(S.waiters))
                 S1 == [S EXCEPT !.waiters = rest]
             IN  IF \E p \in w.snapshot : S.promises[p] = "rejected"
                 THEN drain([S1 EXCEPT !.unhandled = @ + 1])
                 ELSE drain(CASE w.then = "checkOff" -> checkOff(S1, w)
                              [] w.then = "fin" -> buildFin(S1, w)
                              [] w.then = "devClose" -> devClose(S1, w))

\* the end of one callback of the event loop
finish(S) == IF S.crashed THEN S ELSE drain(S)

-----------------------------------------------------------------------------
(* worker.js: the events of one connection *)

\* files of project u/p that exist when the connection opens
PathA == [uid |-> <<117>>, project |-> <<112>>, rel |-> ATxt]

InitialFiles == { [fs |-> << >>, inodes |-> << >>],
                  [fs |-> (PathA :> 1), inodes |-> <<Yo>>] }

SessInit ==
    /\ sock = NoSock
    /\ promises = << >>
    /\ ops = {}
    /\ waiters = << >>
    /\ out = << >>
    /\ \E f \in InitialFiles : fs = f.fs /\ inodes = f.inodes
    /\ requireCache = {}
    /\ crashed = FALSE
    /\ net = "open"
    /\ inflight = << >>
    /\ sent = 0
    /\ handled = << >>
    /\ decoded = << >>
    /\ checkOffs = << >>
    /\ decLog = << >>
    /\ unhandled = 0
    /\ buildLog = << >>
    /\ devLog = << >>

\* a client message and its encoding by the client's codec
Msg(type, note, content) == [type |-> type, note |-> note, content |-> content]

encodeMsg(m) == encode(<<m.type>>, m.content, m.note)

\* socket.on('data', data => signal.decode(data, socket).forEach(info => handle(socket, info)))
OnData(chunk) ==
    /\ ~crashed
    /\ net = "open"
    /\ LET r == exports_decode(chunk, sock.cache)
           S1 == [St EXCEPT !.sock.cache = r.cache]
       IN  /\ \E T \in {finish(handleAll(S1, r.out))} : Assign(T)
           /\ decoded' = r.cache

\* the client sends one message, which arrives as one chunk
Receive(m) ==
    /\ sent < MaxMsgs
    /\ inflight = << >>
    /\ OnData(encodeMsg(m))
    /\ sent' = sent + 1
    /\ UNCHANGED <<inflight, codecVars, masterVars>>

\* the client sends two messages back to back; the first and the first k
\* bytes of the second arrive as one chunk
ReceiveSplit(m1, m2, k) ==
    /\ sent + 1 < MaxMsgs
    /\ inflight = << >>
    /\ k \in 1..(Len(encodeMsg(m2)) - 1)
    /\ OnData(encodeMsg(m1) \o SubSeq(encodeMsg(m2), 1, k))
    /\ inflight' = SubSeq(encodeMsg(m2), k + 1, Len(encodeMsg(m2)))
    /\ sent' = sent + 2
    /\ UNCHANGED <<codecVars, masterVars>>

\* the rest of a frame arrives
ReceiveRest ==
    /\ inflight # << >>
    /\ OnData(inflight)
    /\ inflight' = << >>
    /\ UNCHANGED <<sent, codecVars, masterVars>>

removeOp(S, o) == [S EXCEPT !.ops = @ \ {o}]

replaceOp(S, o, o2) == [S EXCEPT !.ops = (@ \ {o}) \cup {o2}]

\* a callback of the event loop: the session after it and its promise jobs
Callback(S) ==
    /\ \E S0 \in {S} : \E T \in {finish(S0)} : Assign(T)
    /\ UNCHANGED <<inflight, sent, decoded, codecVars, masterVars>>

\* the callback dirCheck gives to fileCover (worker.js fileCover)
DirCheckDone(o, err) ==
    /\ ~crashed
    /\ o \in ops /\ o.kind = "cover" /\ o.stage = "mkdir"
    /\ Callback(IF err
                THEN clientConsole(removeOp(St, o), o.id,
                                   "> Server error: Directory check failed.")
                ELSE replaceOp(St, o, [o EXCEPT !.stage = "open"]))

\* fs.writeFile opens the file: it is created or truncated; a failure is
\* reported to the callback of fs.writeFile
WriteFileOpen(o, err) ==
    /\ ~crashed
    /\ o \in ops /\ o.kind = "cover" /\ o.stage = "open"
    /\ Callback(
         IF err
         THEN clientConsole(removeOp(St, o), o.id, "> Server error: File write failed.")
         ELSE IF o.path \in DOMAIN fs
         THEN [replaceOp(St, o, [o EXCEPT !.stage = "write", !.fd = fs[o.path]])
                 EXCEPT !.inodes[fs[o.path]] = << >>]
         ELSE [replaceOp(St, o, [o EXCEPT !.stage = "write", !.fd = Len(inodes) + 1])
                 EXCEPT !.inodes = Append(@, << >>),
                        !.fs = @ @@ (o.path :> (Len(inodes) + 1))])

\* what a write of data at offset 0 leaves in a file
overlay(data, old) == data \o SubSeq(old, Len(data) + 1, Len(old))

\* mutant of installStart: the install promise is not pushed to socket.sync
installStart_Mutant(S, o) ==
    LET p == Len(S.promises) + 1
    IN  [S EXCEPT !.promises = Append(@, "pending"),
                  !.requireCache = @ \cup {o.path},
                  !.ops = @ \cup {[o EXCEPT !.kind = "install", !.stage = "load",
                                            !.cb = "resolve", !.promise = p]}]

\* install(packageJsonPath, prefix, cb, console) up to npm.load: require of
\* the manifest throws inside the promise's executor when it does not load
installStart(S, o) ==
    LET p == Len(S.promises) + 1
        loads == \/ o.path \in S.requireCache
                 \/ (o.path \in DOMAIN S.fs /\ manifestLoads(S.inodes[S.fs[o.path]]))
        S1 == [S EXCEPT !.promises = Append(@, IF loads THEN "pending" ELSE "rejected"),
                        !.sock.sync = Append(@, p)]
    IN  IF loads
        THEN [S1 EXCEPT !.requireCache = @ \cup {o.path},
                        !.ops = @ \cup {[o EXCEPT !.kind = "install", !.stage = "load",
                                                  !.cb = "resolve", !.promise = p]}]
        ELSE S1

\* the callback of fs.writeFile in fileCover, after the data has been written
WriteFileDone(o) ==
    /\ ~crashed
    /\ o \in ops /\ o.kind = "cover" /\ o.stage = "write"
    /\ \E S1 \in {[removeOp(St, o) EXCEPT !.inodes[o.fd] = overlay(o.content, @)]} :
       \E S2 \in {IF o.isPackageJson THEN installStart(S1, o) ELSE S1} :
       \E S3 \in {IF o.cb = "checked"
                   THEN checked(S2, "syncManifest", o.id,
                                IF o.isPackageJson THEN Len(S2.promises) ELSE 0,
                                o.promise)
                   ELSE S2} :
          Callback(CASE o.cb = "none" -> S2
                     [] o.cb = "resolve" -> resolve(S2, o.promise)
                     [] o.cb = "checked" ->
                          IF S3.crashed THEN S3 ELSE resolve(S3, o.promise))

\* the callback of npm.load in install
NpmLoadDone(o, err) ==
    /\ ~crashed
    /\ o \in ops /\ o.kind = "install" /\ o.stage = "load"
    /\ Callback(IF err
                THEN clientConsole(removeOp(St, o), o.id,
                                   "> Server error: Failed to load npm.")
                ELSE clientConsole(replaceOp(St, o, [o EXCEPT !.stage = "install"]), o.id,
                       "> Installing packages. This might take a couple of minutes."))

\* the callback of npm.install in install
NpmInstallDone(o, err) ==
    /\ ~crashed
    /\ o \in ops /\ o.kind = "install" /\ o.stage = "install"
    /\ Callback(IF err
                THEN clientConsole(removeOp(St, o), o.id,
                       "> Server error: Failed to install dependencies.")
                ELSE resolve(clientConsole(removeOp(St, o), o.id, "> Installed."),
                             o.promise))

\* mutant of readMismatch: only a failed read counts as a mismatch
readMismatch_Mutant(S, o) == o.path \notin DOMAIN S.fs

\* err || !info.equals(md5(file)) in the callback of fs.readFile
readMismatch(S, o) ==
    \/ o.path \notin DOMAIN S.fs
    \/ o.content # md5(S.inodes[S.fs[o.path]])

\* the callback of fs.readFile in fileCheck
ReadFileDone(o) ==
    /\ ~crashed
    /\ o \in ops /\ o.kind = "check"
    /\ LET S1 == removeOp(St, o)
       IN  Callback(IF readMismatch(St, o)
                    THEN write(S1, o.id, SERVER_FILE_UPDATE, << >>, bufferFrom(o.rel))
                    ELSE checked(S1, "check", o.id, 0, 0))

\* fs.unlink completes (fileDelete passes no callback)
UnlinkDone(o) ==
    /\ ~crashed
    /\ o \in ops /\ o.kind = "unlink"
    /\ Callback([removeOp(St, o) EXCEPT
                   !.fs = [p \in (DOMAIN @) \ {o.path} |-> @[p]]])

\* the listeners init has put on 'close' and on 'error': resolve() of every
\* closed promise
closedListeners(S) ==
    [S EXCEPT !.promises = [p \in DOMAIN @ |->
                               IF p \in Range(S.sock.closed) THEN "resolved" ELSE @[p]]]

\* a file of dist: its name under dist, and its content, which is head
\* followed by zero bytes up to size (a large file is not written out)
BigSize == MAX_INFO_SIZE + 1
FileX == [rel |-> XJs, head |-> DataX, size |-> Len(DataX)]
FileY == [rel |-> YJs, head |-> DataY, size |-> Len(DataY)]
FileBig == [rel |-> BigJs, head |-> << >>, size |-> BigSize]

\* what readFiles(buildPath) lists after a build, in the order of the listing
DistMenu == { << >>, <<FileX>>, <<FileY>>, <<FileX, FileY>>, <<FileBig>> }

\* md5(data) of the content of a file of dist (the digest of BigSize zero
\* bytes is the real one)
md5File(head, size) ==
    IF size = Len(head) THEN md5(head)
    ELSE <<138, 180, 32, 208, 63, 27, 173, 57, 254, 182, 180, 121, 79, 105, 94, 136>>

\* index in buildLog of the build started by message id
logOf(S, id) == CHOOSE k \in 1..Len(S.buildLog) : S.buildLog[k].id = id

\* socket.distIgnore[md5(data).toString()]
distIgnored(S, o) == toStr(md5File(o.content, o.size)) \in S.sock.distIgnore

\* the builder's promise settles: the catch of build on a failure, else the
\* then-callback of build up to the fs.readFile calls and the Promise.all
BuilderDone(o, ok, files) ==
    /\ ~crashed
    /\ o \in ops /\ o.kind = "build"
    /\ LET k == logOf(St, o.id)
           n == Len(files)
           base == Len(promises)
           S1 == [removeOp(St, o) EXCEPT
                    !.buildLog[k].state = "built",
                    !.buildLog[k].files = Range(files),
                    !.promises = @ \o [i \in 1..n |-> "pending"],
                    !.ops = @ \cup
                       {[id |-> o.id, kind |-> "distread", stage |-> "read",
                         path |-> o.path, rel |-> files[i].rel,
                         content |-> files[i].head, isPackageJson |-> FALSE,
                         cb |-> "resolve", promise |-> base + i, fd |-> 0,
                         size |-> files[i].size] : i \in 1..n},
                    !.waiters = Append(@, [then |-> "fin", barrier |-> o.id, count |-> n,
                                           snapshot |-> (base + 1)..(base + n)])]
       IN  Callback(IF ok
                    THEN clientConsole(S1, o.id, "> Waiting for sync...")
                    ELSE clientConsole([removeOp(St, o) EXCEPT !.buildLog[k].state = "failed"],
                                       o.id, "> Server error: Failed to build the project."))

\* the callback of fs.readFile in build; socket.write of a frame encode has
\* refused (encode returned {}) throws or emits 'error' and calls back with the
\* error, by Node version (mode)
DistReadDone(o, err, mode) ==
    /\ ~crashed
    /\ o \in ops /\ o.kind = "distread" /\ o.stage = "read"
    /\ LET k == logOf(St, o.id)
           note == bufferFrom(o.rel)
       IN  Callback(
             IF err
             THEN [clientConsole(removeOp(St, o), o.id, "> Server error: Failed to read file: ")
                     EXCEPT !.promises[o.promise] = "rejected",
                            !.buildLog[k].readErr = TRUE]
             ELSE IF sock.distIgnore = {Undefined} THEN throw(St)
             ELSE IF distIgnored(St, o) THEN resolve(removeOp(St, o), o.promise)
             ELSE IF encodeTooBig(encodeLength(Len(note), o.size))
             THEN IF mode = "throw" THEN throw(St)
                  ELSE resolve(closedListeners(removeOp(St, o)), o.promise)
             ELSE write(replaceOp(St, o, [o EXCEPT !.stage = "flush"]), o.id,
                        SERVER_BUILD_FILE_SYNC, o.content, note))

\* the callback of socket.write in build: resolve
FlushDone(o) ==
    /\ ~crashed
    /\ o \in ops /\ o.kind = "distread" /\ o.stage = "flush"
    /\ Callback(resolve(removeOp(St, o), o.promise))

\* the then-callback of builder.ready in development
DevReady(o) ==
    /\ ~crashed
    /\ o \in ops /\ o.kind = "dev" /\ o.stage = "starting"
    /\ Callback(write(replaceOp(St, o, [o EXCEPT !.stage = "ready"]), o.id,
                       SERVER_DEV_SERVER_START, << >>, << >>))

\* the socket emits 'close' (once, before or after 'error')
SocketClose ==
    /\ ~crashed
    /\ net \in {"open", "errored"}
    /\ Callback(closedListeners([St EXCEPT !.net = IF net = "open" THEN "closed" ELSE "both"]))

\* the socket emits 'error' as it is destroyed (once, before or after 'close')
SocketError ==
    /\ ~crashed
    /\ net \in {"open", "closed"}
    /\ Callback(closedListeners([St EXCEPT !.net = IF net = "open" THEN "errored" ELSE "both"]))

-----------------------------------------------------------------------------
(* master.js: the supervisor and its workers *)

MasterInit ==
    /\ listening = FALSE
    /\ workers = << >>

\* createWorker(): fork('./worker.js'), listen to its 'exit', send it the server
createWorker(ws) == Append(ws, [state |-> "running", server |-> TRUE])

\* mutant of onWorkerExit: no replacement is created
onWorkerExit_Mutant(ws, w) == [ws EXCEPT ![w].state = "reaped"]

\* onWorkerExit(worker): worker.kill('SIGHUP') on a process that has exited
\* sends nothing; createWorker()
onWorkerExit(ws, w) == createWorker([ws EXCEPT ![w].state = "reaped"])

\* cores.forEach(createWorker)
RECURSIVE forEachCore(_, _)
forEachCore(ws, n) == IF n = 0 THEN ws ELSE forEachCore(createWorker(ws), n - 1)

\* the callback of server.listen
Listen ==
    /\ ~listening
    /\ listening' = TRUE
    /\ workers' = forEachCore(workers, Cores)
    /\ UNCHANGED <<codecVars, sessVars>>

\* the process of a worker ends (a crash or a kill): its 'exit' event is due
WorkerDies(w) ==
    /\ w \in 1..Len(workers)
    /\ workers[w].state = "running"
    /\ Len(workers) < Cores + MaxExits
    /\ workers' = [workers EXCEPT ![w].state = "exited"]
    /\ UNCHANGED <<listening, codecVars, sessVars>>

\* worker.on('exit', () => onWorkerExit(worker))
WorkerExit(w) ==
    /\ w \in 1..Len(workers)
    /\ workers[w].state = "exited"
    /\ workers' = onWorkerExit(workers, w)
    /\ UNCHANGED <<listening, codecVars, sessVars>>

MasterNext ==
    \/ Listen
    \/ \E w \in 1..(Cores + MaxExits) : WorkerDies(w)
    \/ \E w \in 1..(Cores + MaxExits) : WorkerExit(w)

-----------------------------------------------------------------------------
(* A build and the streaming of its output *)

BuildMenu ==
    { Msg(CLIENT_INIT, << >>, IdentU),
      Msg(CLIENT_SYNC_FILES_MD5, << >>, HashSetX),
      Msg(CLIENT_SYNC_FILES_MD5, << >>, HashSetNone),
      Msg(CLIENT_BUILD, << >>, << >>) }

BuildNext ==
    \/ \E m \in BuildMenu : Receive(m)
    \/ \E o \in ops, ok \in BOOLEAN, files \in DistMenu : BuilderDone(o, ok, files)
    \/ \E o \in ops, err \in BOOLEAN, mode \in {"throw", "error"} : DistReadDone(o, err, mode)
    \/ \E o \in ops : FlushDone(o)

-----------------------------------------------------------------------------
(* Dev builds, builds and the end of the connection *)

DevMenu ==
    { Msg(CLIENT_INIT, << >>, IdentU),
      Msg(CLIENT_DEVELOPMENT, << >>, << >>),
      Msg(CLIENT_SYNC_FILES_MD5, << >>, HashSetNone),
      Msg(CLIENT_BUILD, << >>, << >>) }

DevNext ==
    \/ \E m \in DevMenu : Receive(m)
    \/ \E o \in ops : DevReady(o)
    \/ \E o \in ops, ok \in BOOLEAN, files \in {<<FileY>>, <<FileBig>>} :
          BuilderDone(o, ok, files)
    \/ \E o \in ops, err \in BOOLEAN, mode \in {"throw", "error"} : DistReadDone(o, err, mode)
    \/ \E o \in ops : FlushDone(o)
    \/ SocketClose
    \/ SocketError

-----------------------------------------------------------------------------
(* File changes, checks and deletions of a session *)

FilesMenu ==
    { Msg(CLIENT_INIT, << >>, IdentU),
      Msg(CLIENT_INIT, << >>, IdentV),
      Msg(CLIENT_FILE_CHANGE, ATxt, Hi),
      Msg(CLIENT_FILE_CHANGE, ATxt, Yo),
      Msg(CLIENT_FILE_CHECK, ATxt, md5(Hi)),
      Msg(CLIENT_FILE_DELETE, ATxt, << >>) }

FilesNext ==
    \/ \E m \in FilesMenu : Receive(m)
    \/ \E o \in ops, err \in BOOLEAN : DirCheckDone(o, err)
    \/ \E o \in ops, err \in BOOLEAN : WriteFileOpen(o, err)
    \/ \E o \in ops : WriteFileDone(o)
    \/ \E o \in ops : ReadFileDone(o)
    \/ \E o \in ops : UnlinkDone(o)

-----------------------------------------------------------------------------
(* A connection whose bytes arrive in chunks that do not follow the frames *)

ConnMenu ==
    { Msg(CLIENT_INIT, << >>, IdentU),
      Msg(CLIENT_NUMBER_OF_CHECK_FILES, << >>, <<49>>),
      Msg(CLIENT_FILE_CHANGE, ATxt, Hi) }

ConnNext ==
    \/ \E m \in ConnMenu : Receive(m)
    \/ \E m1 \in ConnMenu, m2 \in ConnMenu :
          \E k \in 1..(Len(encodeMsg(m2)) - 1) : ReceiveSplit(m1, m2, k)
    \/ ReceiveRest
    \/ \E o \in ops, err \in BOOLEAN : DirCheckDone(o, err)
    \/ \E o \in ops, err \in BOOLEAN : WriteFileOpen(o, err)
    \/ \E o \in ops : WriteFileDone(o)
    \/ SocketClose

-----------------------------------------------------------------------------
(* The check/sync phase of a session *)

SyncMenu ==
    { Msg(CLIENT_INIT, << >>, IdentU),
      Msg(CLIENT_NUMBER_OF_CHECK_FILES, << >>, <<49>>),
      Msg(CLIENT_NUMBER_OF_CHECK_FILES, << >>, <<50>>),
      Msg(CLIENT_FILE_SYNC, ATxt, Hi),
      Msg(CLIENT_FILE_SYNC, PackageJson, Manifest),
      Msg(CLIENT_FILE_CHECK, ATxt, md5(Yo)),
      Msg(CLIENT_FILE_CHANGE, PackageJson, Manifest) }

SyncNext ==
    \/ \E m \in SyncMenu : Receive(m)
    \/ \E o \in ops, err \in BOOLEAN : DirCheckDone(o, err)
    \/ \E o \in ops, err \in BOOLEAN : WriteFileOpen(o, err)
    \/ \E o \in ops : WriteFileDone(o)
    \/ \E o \in ops, err \in BOOLEAN : NpmLoadDone(o, err)
    \/ \E o \in ops, err \in BOOLEAN : NpmInstallDone(o, err)
    \/ \E o \in ops : ReadFileDone(o)

\* the check/sync phase with counts that are zero or negative
ZeroNext ==
    \/ \E m \in { Msg(CLIENT_INIT, << >>, IdentU),
                  Msg(CLIENT_NUMBER_OF_CHECK_FILES, << >>, <<48>>),
                  Msg(CLIENT_NUMBER_OF_CHECK_FILES, << >>, <<45, 49>>),
                  Msg(CLIENT_NUMBER_OF_CHECK_FILES, << >>, <<49>>),
                  Msg(CLIENT_FILE_SYNC, ATxt, Hi),
                  Msg(CLIENT_FILE_SYNC, PackageJson, Manifest),
                  Msg(CLIENT_FILE_CHECK, ATxt, md5(Yo)) } : Receive(m)
    \/ \E o \in ops, err \in BOOLEAN : DirCheckDone(o, err)
    \/ \E o \in ops, err \in BOOLEAN : WriteFileOpen(o, err)
    \/ \E o \in ops : WriteFileDone(o)
    \/ \E o \in ops, err \in BOOLEAN : NpmLoadDone(o, err)
    \/ \E o \in ops, err \in BOOLEAN : NpmInstallDone(o, err)
    \/ \E o \in ops : ReadFileDone(o)

CodecNext ==
    \/ \E t \in Types, c \in Contents, n \in Notes : Send(t, c, n)
    \/ \E d \in OverLengths : SendRaw(d)
    \/ \E k \in 1..Len(wire) : Deliver(k)

\* a fresh connection and the files on disk
Init == CodecInit /\ SessInit /\ MasterInit

\* the codec harness leaves the session alone
InitIdle == Init /\ fs = << >>

SpecCodec == InitIdle /\ [][CodecNext]_vars

\* the streaming caller alone: one socket.write(encode(..)) per run
EncodeNext == \E p \in BulkSizes : WriteBulk(p[1], p[2])

SpecEncode == InitIdle /\ [][EncodeNext]_vars

SpecSync == Init /\ [][SyncNext]_vars

\* the callbacks of the event loop: every completion that is due runs
SyncCallbacks ==
    \/ \E o \in ops, err \in BOOLEAN : DirCheckDone(o, err)
    \/ \E o \in ops, err \in BOOLEAN : WriteFileOpen(o, err)
    \/ \E o \in ops : WriteFileDone(o)
    \/ \E o \in ops, err \in BOOLEAN : NpmLoadDone(o, err)
    \/ \E o \in ops, err \in BOOLEAN : NpmInstallDone(o, err)
    \/ \E o \in ops : ReadFileDone(o)

SpecSyncFair == SpecSync /\ WF_vars(SyncCallbacks)

SpecZero == Init /\ [][ZeroNext]_vars

SpecFiles == Init /\ [][FilesNext]_vars

SpecConn == Init /\ [][ConnNext]_vars

SpecBuild == InitIdle /\ [][BuildNext]_vars

SpecDev == InitIdle /\ [][DevNext]_vars

SpecMaster == InitIdle /\ [][MasterNext]_vars

-----------------------------------------------------------------------------
(* Claims about the codec *)

\* C1 (as claimed): one decode call on encode(type, content, note), with an
\* empty cache, returns exactly the frame {type, content, note}, whatever
\* bytes the note and the content hold.
C1_RoundTrip ==
    [][ ( /\ sentFrames' = sentFrames
          /\ sentFrames # << >>
          /\ Last(sentFrames).valid
          /\ zone.cache = << >>
          /\ wire = encode(<<Last(sentFrames).type>>, Last(sentFrames).content,
                           Last(sentFrames).note)
          /\ wire' = << >> )
        => received' = Append(received, Triple(Last(sentFrames))) ]_vars

\* C2 (as claimed): once every byte of a sequence of encoded frames has been
\* delivered, in chunks cut anywhere, the frames returned are those one
\* decode call on the whole byte string returns.
C2_ChunkingInvariance ==
    ( /\ wire = << >>
      /\ \A i \in 1..Len(sentFrames) : sentFrames[i].valid )
    => received = exports_decode(sentBytes, << >>).out

\* C5 (as claimed): decode never returns a frame whose 3-byte big-endian
\* length field declares more than the 5 MiB limit.
C5_OversizeNeverDecoded ==
    \A i \in 1..Len(accepted) : accepted[i] <= MAX_INFO_SIZE

\* C7 (as claimed): after decode has rejected a frame for its declared
\* length, a well-formed frame sent afterwards on the same connection is
\* returned once all its bytes have been delivered.
C7_RecoversAfterReject ==
    ( /\ rejectAt > 0
      /\ ~sentFrames[rejectAt].valid
      /\ Len(sentFrames) > rejectAt
      /\ wire = << >>
      /\ Last(sentFrames).valid
      /\ Last(sentFrames).note = << >>
      /\ Last(sentFrames).content \in { << >>, <<104>> } )
    => ( received # << >> /\ Last(received) = Triple(Last(sentFrames)) )

\* C6: socket.write(encode(..)) writes nothing when the total size exceeds
\* the limit, and writes the whole frame, with its header, when the total
\* size is at most the limit.
C6_EncodeSizeLimit ==
    bulk # NoBulk =>
        IF 12 + bulk.noteLen + bulk.contentLen > MAX * 1024 * 1024
        THEN bulk.wrote = 0 /\ bulk.failure # "none"
        ELSE /\ bulk.wrote = 12 + bulk.noteLen + bulk.contentLen
             /\ bulk.failure = "none"
             /\ bulk.head = START \o be3(bulk.wrote) \o SERVER_BUILD_FILE_SYNC

\* C6 witness: a refused write just over the limit
C6_Witness == bulk # NoBulk /\ bulk.length = MAX_INFO_SIZE + 1 /\ bulk.wrote = 0


-----------------------------------------------------------------------------
(* Claims about the session *)

\* C3 (as claimed): check-complete is emitted at most once per barrier, and
\* for a barrier of count N >= 1 never before N decrements of that barrier
\* nor while a promise of socket.sync is still pending.
C3_BarrierSafety ==
    /\ \A i, j \in 1..Len(checkOffs) :
           checkOffs[i].barrier = checkOffs[j].barrier => i = j
    /\ \A i \in 1..Len(checkOffs) :
           checkOffs[i].count >= 1 =>
               /\ checkOffs[i].decs >= checkOffs[i].count
               /\ checkOffs[i].unsettled = {}

decsOf(b) == {i \in 1..Len(decLog) : decLog[i].barrier = b}

touches(f, p) ==
    /\ f.type \in {CLIENT_FILE_CHANGE, CLIENT_FILE_DELETE, CLIENT_FILE_CHECK, CLIENT_FILE_SYNC}
    /\ f.note = p

\* C8 (as claimed): a File-Check of p with the hash of c that follows a
\* File-Change of p with content c, with no message about p in between and
\* no failure of that write, never answers file-update-needed.
C8_CheckAfterChange ==
    \A j \in 1..Len(handled) : \A i \in 1..(j - 1) :
        ( /\ handled[i].type = CLIENT_FILE_CHANGE
          /\ handled[j].type = CLIENT_FILE_CHECK
          /\ handled[j].note = handled[i].note
          /\ handled[j].content = md5(handled[i].content)
          /\ \A k \in (i + 1)..(j - 1) : ~touches(handled[k], handled[i].note)
          /\ ~\E x \in Range(out) : x.by = i /\ x.signal = SERVER_CONSOLE )
        => ~\E x \in Range(out) : x.by = j /\ x.signal = SERVER_FILE_UPDATE

\* C9 (as claimed, for the messages received before Init): as long as no Init
\* has been handled nothing is acted on: no operation is started, nothing is
\* written, no exception is raised and the session state is unchanged.
C9_GatedBeforeInit ==
    ~sock.inited =>
        /\ ops = {}
        /\ out = << >>
        /\ ~crashed
        /\ [sock EXCEPT !.cache = << >>] = NoSock

\* C10 (as claimed): no handler changes the reassembly buffer: after a
\* 'data' event it is what exports.decode left.
C10_CacheOnlyDecode ==
    ~crashed => sock.cache = decoded

\* the frames written for message i with signal sig
framesOf(o, i, sig) == {k \in 1..Len(o) : o[k].by = i /\ o[k].signal = sig}

\* C11: a File-Check whose read completes while a barrier is installed either
\* writes one file-update-needed naming its path and decrements nothing (the
\* read failed or the hash of the file differs), or decrements the barrier
\* once and writes no file-update-needed (the hashes are equal).
C11_CheckOutcome ==
    [][\A o \in ops :
          (o.kind = "check" /\ o \notin ops' /\ sock.checked.id # 0) =>
              IF o.path \notin DOMAIN fs \/ o.content # md5(inodes[fs[o.path]])
              THEN /\ decLog' = decLog
                   /\ out' = Append(out, [signal |-> SERVER_FILE_UPDATE, content |-> << >>,
                                          note |-> o.rel, text |-> "", by |-> o.id])
              ELSE /\ Len(decLog') = Len(decLog) + 1
                   /\ decLog'[Len(decLog')].by = o.id
                   /\ decLog'[Len(decLog')].barrier = sock.checked.id
                   /\ sock'.checked.total = sock.checked.total - 1
                   /\ framesOf(out', o.id, SERVER_FILE_UPDATE) = {}]_vars

\* C11 witness: a File-Check with the hash of the file has decremented a barrier
C11_Witness ==
    \E i \in 1..Len(decLog) :
        /\ decLog[i].kind = "check"
        /\ framesOf(out, decLog[i].by, SERVER_FILE_UPDATE) = {}

\* the frames of build b that carry the file named rel
fileFrames(b, rel) ==
    {k \in framesOf(out, b.id, SERVER_BUILD_FILE_SYNC) : out[k].note = bufferFrom(rel)}

\* nothing of build b is left to run
buildOver(b) ==
    \/ crashed
    \/ /\ ~\E o \in ops : o.id = b.id
       /\ ~\E i \in 1..Len(waiters) : waiters[i].then = "fin" /\ waiters[i].barrier = b.id

\* C12 (as claimed): a failed build sends no fin; the fin of a build follows
\* its build-file-sync frames; and once a successful build whose files were
\* all read is over, with the ignore set supplied before it, it has sent no
\* frame for a file whose hash is in the ignore set, one frame for every other
\* file and one fin.
C12_BuildStreaming ==
    \A b \in Range(buildLog) :
        /\ b.state = "failed" => framesOf(out, b.id, SERVER_FIN) = {}
        /\ \A i \in framesOf(out, b.id, SERVER_FIN) :
              \A j \in framesOf(out, b.id, SERVER_BUILD_FILE_SYNC) : j < i
        /\ ( /\ b.state = "built"
             /\ b.ignore # {Undefined}
             /\ sock.distIgnore = b.ignore
             /\ ~b.readErr
             /\ buildOver(b) )
           => /\ \A f \in b.files :
                    Cardinality(fileFrames(b, f.rel)) =
                        IF toStr(md5File(f.head, f.size)) \in b.ignore THEN 0 ELSE 1
              /\ Cardinality(framesOf(out, b.id, SERVER_FIN)) = 1

\* the sync tasks: every promise but the closed promises of init
syncTasks == {p \in 1..Len(promises) : p \notin Range(sock.closed)}

\* message b is a Number-Of-Check-Files with a count N >= 1, N decrements of
\* its barrier have happened and every sync task has resolved
barrierDue(b) ==
    /\ ~crashed
    /\ b <= Len(handled)
    /\ handled[b].type = CLIENT_NUMBER_OF_CHECK_FILES
    /\ toNumber(toStr(handled[b].content)) >= 1
    /\ Cardinality(decsOf(b)) >= toNumber(toStr(handled[b].content))
    /\ \A p \in syncTasks : promises[p] = "resolved"

\* C13: under fair scheduling of the callbacks, once N decrements of the
\* barrier of a Number-Of-Check-Files with count N >= 1 have happened and
\* every sync task has resolved, check-complete is eventually written for
\* that barrier.
C13_BarrierLiveness ==
    \A b \in 1..MaxMsgs :
        barrierDue(b) ~> (framesOf(out, b, SERVER_CHECK_OFF) # {})

\* C13 witness: a barrier with an install among its sync tasks is due and
\* its check-complete has been written
C13_Witness ==
    \E b \in 1..MaxMsgs :
        /\ barrierDue(b)
        /\ framesOf(out, b, SERVER_CHECK_OFF) # {}
        /\ \E i \in decsOf(b) : decLog[i].kind = "syncManifest"

\* the Development messages that have started a dev build
devStarted ==
    {i \in 1..Len(handled) :
        /\ handled[i].type = CLIENT_DEVELOPMENT
        /\ ~(crashed /\ i = Len(handled))}

\* C14 (as claimed): once the socket of an initialized session has emitted
\* 'close', 'error' or both, its closed promise is resolved and the close of
\* every dev build started on the connection has been called exactly once;
\* no close of a dev build is ever called while the socket is still open.
C14_CloseTeardown ==
    /\ \A k \in 1..Len(devLog) : devLog[k].net # "open"
    /\ \A i \in devStarted :
           Cardinality({k \in 1..Len(devLog) : devLog[k].id = i}) <= 1
    /\ (net # "open" /\ sock.inited /\ ~crashed) =>
           /\ promises[Last(sock.closed)] = "resolved"
           /\ \A i \in devStarted :
                  Cardinality({k \in 1..Len(devLog) : devLog[k].id = i}) = 1

\* the workers in a given state
workersIn(st) == {w \in 1..Len(workers) : workers[w].state = st}

\* C15: once the supervisor has forked one worker per core, every handled
\* exit has forked exactly one replacement, every worker has been sent the
\* server, the live workers never exceed the number of cores, and they are
\* that many whenever no exit event is left to handle.
C15_WorkerRespawn ==
    listening =>
        /\ Len(workers) = Cores + Cardinality(workersIn("reaped"))
        /\ \A w \in 1..Len(workers) : workers[w].server
        /\ Cardinality(workersIn("running")) <= Cores
        /\ workersIn("exited") = {} => Cardinality(workersIn("running")) = Cores

\* C15 witness: workers have exited, replacements among them, and every exit
\* has been handled
C15_Witness ==
    /\ listening
    /\ Cardinality(workersIn("reaped")) > Cores
    /\ workersIn("exited") = {}

\* the Init messages handled so far
initsHandled == {i \in 1..Len(handled) : handled[i].type = CLIENT_INIT}

\* the root path the first Init has derived: relativeToAbsolute(socket)
firstRoot ==
    LET info == JSONparse(toStr(handled[Min(initsHandled)].content))
    IN  relativeToAbsolute(info, << >>)

\* C16 (as claimed): once an Init has been handled, the root path that file
\* paths are resolved against is the one derived from that Init, and so is
\* the root of every file operation started since.
C16_RootImmutable ==
    initsHandled # {} =>
        /\ relativeToAbsolute(sock, << >>) = firstRoot
        /\ \A o \in ops : [o.path EXCEPT !.rel = << >>] = firstRoot

\* C17 (as claimed): when File-Change messages i and then j for the same path
\* have both been written without error (no callback of theirs is left and
\* no error was reported for them), and no other message after i names
\* the path or is an Init, the file holds the content of j.
C17_ArrivalOrder ==
    \A j \in 1..Len(handled) : \A i \in 1..(j - 1) :
        ( /\ handled[i].type = CLIENT_FILE_CHANGE
          /\ handled[j].type = CLIENT_FILE_CHANGE
          /\ handled[j].note = handled[i].note
          /\ \A k \in (i + 1)..Len(handled) :
                k # j => ~touches(handled[k], handled[i].note) /\ handled[k].type # CLIENT_INIT
          /\ \A m \in {i, j} :
                /\ ~\E o \in ops : o.id = m
                /\ framesOf(out, m, SERVER_CONSOLE) = {} )
        => LET path == relativeToAbsolute(sock, toStr(handled[j].note))
           IN  path \in DOMAIN fs /\ inodes[fs[path]] = handled[j].content

\* C18 (as claimed): in an active session with no check barrier installed
\* (the messages handled so far are one Init followed by File-Sync and
\* File-Check messages of a.txt only), File-Sync and File-Check messages
\* raise no error: no uncaught exception ends the worker.
C18_OptionalBarrier ==
    ( /\ Len(handled) >= 1
      /\ handled[1].type = CLIENT_INIT
      /\ \A i \in 2..Len(handled) :
            /\ handled[i].type \in {CLIENT_FILE_SYNC, CLIENT_FILE_CHECK}
            /\ handled[i].note = ATxt )
    => ~crashed

\* the decrements that bring a barrier to zero while an entry of socket.sync
\* has already failed
zeroedOnFailure == {i \in 1..Len(decLog) : decLog[i].total = 0 /\ decLog[i].failed # {}}

zeroCounts ==
    {b \in 1..Len(handled) :
        /\ handled[b].type = CLIENT_NUMBER_OF_CHECK_FILES
        /\ toNumber(toStr(handled[b].content)) <= 0}

\* C20: the barrier of a Number-Of-Check-Files with a count of zero or a
\* negative count never writes check-complete, whatever File-Check and
\* File-Sync completions follow.
C20_ZeroCountNeverFires ==
    \A b \in zeroCounts : framesOf(out, b, SERVER_CHECK_OFF) = {}

\* C20 witness: the barrier of a count of zero has been decremented by a
\* File-Sync and by a File-Check, every sync task has resolved and no
\* callback is left to run
C20_Witness ==
    /\ ~crashed /\ ops = {}
    /\ \A p \in syncTasks : promises[p] = "resolved"
    /\ \E b \in zeroCounts :
          /\ toNumber(toStr(handled[b].content)) = 0
          /\ \E i \in decsOf(b) : decLog[i].kind = "sync"
          /\ \E i \in decsOf(b) : decLog[i].kind = "check"

=============================================================================
